---- MODULE Spec2Model ----
(***************************************************************************)
(* Model of the Apify poll loop (src/apify_runner.py): module start-up,    *)
(* then the endless cycle  load_state -> run_actor_and_get_items ->        *)
(* save_items_to_db -> save_state -> snapshot -> log_run -> sleep.         *)
(* Every step that performs I/O may either succeed or raise.               *)
(***************************************************************************)
EXTENDS Integers, Sequences, FiniteSets, TLC

\* ------------------------------------------------------------------ bounds
MaxCycles == 2
MaxBatch == 2

\* ------------------------------------------------- python values and dicts
\* Python's None where a string may also stand (latest_ts, error, runId).
None == "<None>"

\* `if x:` on a string or None.
Truthy(x) == x \notin {None, ""}

\* dict.get(k, default)
Get(d, k, default) == IF k \in DOMAIN d THEN d[k] ELSE default

\* d[k] = v
Put(d, k, v) == [x \in (DOMAIN d) \cup {k} |-> IF x = k THEN v ELSE d[x]]

\* The empty dict.
EmptyDict == [x \in {} |-> None]

\* --------------------------------------------------- strings as characters
\* Strings that the program takes apart (URLs, source names) are sequences
\* of one-character strings.
Letters ==
  << <<"a","A">>, <<"b","B">>, <<"c","C">>, <<"d","D">>, <<"e","E">>,
     <<"f","F">>, <<"g","G">>, <<"h","H">>, <<"i","I">>, <<"j","J">>,
     <<"k","K">>, <<"l","L">>, <<"m","M">>, <<"n","N">>, <<"o","O">>,
     <<"p","P">>, <<"q","Q">>, <<"r","R">>, <<"s","S">>, <<"t","T">>,
     <<"u","U">>, <<"v","V">>, <<"w","W">>, <<"x","X">>, <<"y","Y">>,
     <<"z","Z">> >>

IsLower(c) == \E i \in 1..Len(Letters) : Letters[i][1] = c
IsUpper(c) == \E i \in 1..Len(Letters) : Letters[i][2] = c
IsCased(c) == IsLower(c) \/ IsUpper(c)
ToUpper(c) ==
  IF IsLower(c) THEN Letters[CHOOSE i \in 1..Len(Letters) : Letters[i][1] = c][2] ELSE c
ToLower(c) ==
  IF IsUpper(c) THEN Letters[CHOOSE i \in 1..Len(Letters) : Letters[i][2] = c][1] ELSE c

\* `sub in s`
Contains(s, sub) ==
  \E i \in 1..(Len(s) - Len(sub) + 1) : SubSeq(s, i, i + Len(sub) - 1) = sub

\* s.split(sep)[-1]: what follows the last occurrence of sep, or s itself.
SplitLast(s, sep) ==
  LET occ == {i \in 1..(Len(s) - Len(sep) + 1) : SubSeq(s, i, i + Len(sep) - 1) = sep}
  IN IF occ = {} THEN s
     ELSE LET last == CHOOSE i \in occ : \A j \in occ : j <= i
          IN SubSeq(s, last + Len(sep), Len(s))

\* s.strip(c)
Strip(s, c) ==
  LET keep == {i \in 1..Len(s) : s[i] # c}
  IN IF keep = {} THEN <<>>
     ELSE LET lo == CHOOSE i \in keep : \A j \in keep : i <= j
              hi == CHOOSE i \in keep : \A j \in keep : j <= i
          IN SubSeq(s, lo, hi)

\* s.replace(a, b) for single characters
ReplaceChar(s, a, b) == [i \in 1..Len(s) |-> IF s[i] = a THEN b ELSE s[i]]

\* s.title(): a cased character is upper-cased when the character before it
\* is not cased (or there is none) and lower-cased otherwise.
Title(s) ==
  [i \in 1..Len(s) |->
     IF i = 1 \/ ~IsCased(s[i - 1]) THEN ToUpper(s[i]) ELSE ToLower(s[i])]

FacebookCom == <<"f","a","c","e","b","o","o","k",".","c","o","m">>
FacebookComSlash == FacebookCom \o <<"/">>
HttpsPrefix == <<"h","t","t","p","s",":","/","/">>
FacebookPage == <<"F","a","c","e","b","o","o","k"," ","P","a","g","e">>

\* ------------------------------------------------------------ configuration
Placeholder == "__LAST_TIMESTAMP__"

UrlAcme == HttpsPrefix \o FacebookComSlash \o <<"A","c","m","e">>
UrlJohnDoe == HttpsPrefix \o FacebookComSlash \o <<"j","o","h","n",".","d","o","e","/">>
UrlOther == HttpsPrefix \o <<"e","x","a","m","p","l","e",".","o","r","g","/","n","e","w","s">>

NameOld == <<"o","l","d">>
NamePageA == <<"P","a","g","e","A">>

\* The dict literal of extract_source_metadata used when config.json has no
\* "source_metadata" entry.
DefaultMetadata ==
  [source_type |-> "facebook", post_type |-> "post",
   source_name |-> FacebookPage, category |-> "Social Media"]

\* config.json documents the runs are checked with.  An inputTemplate is a
\* dict whose string values are sequences of text pieces; a piece may be the
\* placeholder.  A start URL entry is either a dict {"url": ...} or a bare
\* string.
ConfigPlain ==
  [actorId |-> "X",
   inputTemplate |-> [startUrls |-> << [isDict |-> TRUE, url |-> UrlAcme] >>,
                      onlyPostsNewerThan |-> << Placeholder >>]]

ConfigDerive ==
  [actorId |-> "X",
   inputTemplate |-> [startUrls |-> << [isDict |-> TRUE, url |-> UrlJohnDoe] >>],
   source_metadata |-> [category |-> "News"]]

ConfigPartial ==
  [actorId |-> "X",
   inputTemplate |-> [startUrls |-> << [isDict |-> FALSE, url |-> UrlOther] >>,
                      onlyPostsNewerThan |-> << "since:", Placeholder >>],
   source_metadata |-> [source_type |-> "news", post_type |-> "article"]]

Configs == {ConfigPlain, ConfigDerive, ConfigPartial}

\* ------------------------------------------------------------------- items
T1 == "2024-01-01T00:00:00Z"
T2 == "2024-01-02T00:00:00Z"
TQuote == "2024\"01"

\* Position of a timestamp in time (the source's timestamps are ISO strings,
\* ordered as text); 0 for a value that is no timestamp.
TsRank(ts) == CASE ts = T1 -> 1 [] ts = T2 -> 2 [] OTHER -> 0

\* The items the source may return.  ItemB has the natural key of ItemA and
\* already carries the four fields that save_items_to_db stamps; ItemC has
\* no timestamp but a pageNameSource; the timestamp of ItemE holds a double quote.
ItemA == [url |-> "u1", timestamp |-> T1]
ItemB == [url |-> "u1", timestamp |-> T2,
          source_type |-> "old", post_type |-> "old",
          source_name |-> NameOld, category |-> "old"]
ItemC == [url |-> "u2", pageNameSource |-> NamePageA]
ItemE == [url |-> "u2", timestamp |-> TQuote]

ItemPool == {ItemA, ItemB, ItemC, ItemE}

RECURSIVE SeqsUpTo(_, _)
SeqsUpTo(S, n) ==
  IF n = 0 THEN {<<>>}
  ELSE LET shorter == SeqsUpTo(S, n - 1)
       IN shorter \cup {Append(q, x) : q \in {r \in shorter : Len(r) = n - 1}, x \in S}

Batches == SeqsUpTo(ItemPool, MaxBatch)

\* ------------------------------------------------------------- state store
\* Contents of the state file: missing, a complete JSON document, or the
\* remains of a write that did not finish (open(path, "w") truncates the file
\* before json.dump writes to it).
NoFile == [exists |-> FALSE]
FileWith(ts) == [exists |-> TRUE, complete |-> TRUE, lastTimestamp |-> ts]
Truncated == [exists |-> TRUE, complete |-> FALSE]

\* load_state: the parsed dict, or the exception json.load raises.
load_state(file) ==
  IF ~file.exists THEN [raised |-> FALSE, state |-> [lastTimestamp |-> ""]]
  ELSE IF file.complete
       THEN [raised |-> FALSE, state |-> [lastTimestamp |-> file.lastTimestamp]]
       ELSE [raised |-> TRUE, error |-> "JSONDecodeError"]

\* Timestamps whose text, pasted into a JSON string literal, ends the literal.
JsonBreaking == {TQuote}

\* Lines 237-242: the request built from the template.  The template is
\* dumped to text; when the text holds the placeholder every occurrence is
\* replaced by the raw timestamp and the text is parsed again.
HasPlaceholder(template) ==
  LET pieces == Get(template, "onlyPostsNewerThan", <<>>)
  IN \E i \in 1..Len(pieces) : pieces[i] = Placeholder

BuildActorInput(template, ts) ==
  LET pieces == Get(template, "onlyPostsNewerThan", <<>>)
      text == IF Truthy(ts) THEN ts ELSE ""
  IN IF ~HasPlaceholder(template) THEN [raised |-> FALSE, input |-> template]
     ELSE IF text \in JsonBreaking THEN [raised |-> TRUE, error |-> "JSONDecodeError"]
     ELSE [raised |-> FALSE,
           input |-> Put(template, "onlyPostsNewerThan",
                         [i \in 1..Len(pieces) |->
                            IF pieces[i] = Placeholder THEN text ELSE pieces[i]])]

\* ----------------------------------------------------------- source client
\* What requests.post can come back with: an exception, a non-200 status, or
\* a 200 with a JSON body.
FetchErrors == {"ReadTimeout"}

Bodies ==
  [kind : {"list", "envelope"}, data : Batches]
    \cup {[kind |-> "no_data"], [kind |-> "null_data"], [kind |-> "scalar"]}

\* Lines 113-121: the items of a 200 body.  dict.get("data", []) yields None
\* for an envelope whose data is null.
ResponseItems(body) ==
  CASE body.kind = "list" -> [isNone |-> FALSE, list |-> body.data]
    [] body.kind = "envelope" -> [isNone |-> FALSE, list |-> body.data]
    [] body.kind = "no_data" -> [isNone |-> FALSE, list |-> <<>>]
    [] body.kind = "null_data" -> [isNone |-> TRUE, list |-> <<>>]
    [] OTHER -> [isNone |-> FALSE, list |-> <<>>]

\* ------------------------------------------------------- source metadata
extract_source_metadata(cfg) ==
  LET default_metadata == Get(cfg, "source_metadata", DefaultMetadata)
      entries == Get(cfg.inputTemplate, "startUrls", <<>>)
      urls == [i \in 1..Len(entries) |-> entries[i].url]
      derive == /\ urls # <<>>
                /\ Get(default_metadata, "source_name", <<>>) = <<>>
                /\ Contains(urls[1], FacebookCom)
      page_id == Strip(SplitLast(urls[1], FacebookComSlash), "/")
  IN [metadata |-> IF derive
                   THEN Put(default_metadata, "source_name",
                            Title(ReplaceChar(page_id, ".", " ")))
                   ELSE default_metadata,
      start_urls |-> urls]

\* ------------------------------------------------------- persistence layer
\* Stamping that keeps a value the item already has (dict.setdefault).
StampKeepingOwn(item, metadata) ==
  LET a == IF "source_type" \in DOMAIN item THEN item
           ELSE Put(item, "source_type", Get(metadata, "source_type", "facebook"))
      b == IF "post_type" \in DOMAIN a THEN a
           ELSE Put(a, "post_type", Get(metadata, "post_type", "post"))
      c == IF "source_name" \in DOMAIN b THEN b
           ELSE Put(b, "source_name",
                    Get(metadata, "source_name", Get(b, "pageNameSource", FacebookPage)))
  IN IF "category" \in DOMAIN c THEN c
     ELSE Put(c, "category", Get(metadata, "category", "Social Media"))

\* Lines 164-167: the item with the four metadata fields assigned.
Stamp(item, metadata) ==
  LET a == Put(item, "source_type", Get(metadata, "source_type", "facebook"))
      b == Put(a, "post_type", Get(metadata, "post_type", "post"))
      c == Put(b, "source_name",
               Get(metadata, "source_name", Get(b, "pageNameSource", FacebookPage)))
  IN Put(c, "category", Get(metadata, "category", "Social Media"))

\* The unique index on "url" (db.py create_indices) rejects a document whose
\* url is already stored.
DuplicateKey(coll, doc) == \E d \in coll : d.url = doc.url

\* Counting that is not skipped when insert_one raises.
NextCountAlways(count, inserted) == count + 1

\* Line 172 and line 173: the count after one item.
NextCount(count, inserted) == IF inserted THEN count + 1 ELSE count

\* -------------------------------------------------------------- run logger
\* A record that reports the cycle as failed although nothing raised.
SuccessRecordAsError(its, ts) ==
  [runId |-> "run", status |-> "ERROR", itemCount |-> Len(its),
   latestTimestamp |-> ts, error |-> None]

SuccessRecord(its, ts) ==
  [runId |-> "run", status |-> "SUCCEEDED", itemCount |-> Len(its),
   latestTimestamp |-> ts, error |-> None]

ErrorRecord(e) ==
  [runId |-> None, status |-> "ERROR", itemCount |-> 0,
   latestTimestamp |-> None, error |-> e]

\* Line 266: the timestamp the checkpoint is taken from.
CheckpointTs(its) == Get(its[1], "timestamp", None)

\* -------------------------------------------------------------------- state
VARIABLES
  pc,               \* where the process is
  APIFY_TOKEN,      \* the environment's token ("" when unset)
  dbReachable,      \* whether client.server_info() answers
  config,           \* config.json
  source_metadata,  \* module globals set once at start-up
  start_urls,
  stateFile,        \* the file named by state_file
  collection,       \* the documents of the MongoDB collection
  runLog,           \* the lines of log.jsonl
  snapshotFile,     \* data/apify_response_<time>.json
  error_log,        \* number of lines of error_log.txt
  last_ts,          \* locals of the loop body
  actor_input,
  items,
  idx,              \* position of save_items_to_db's for loop
  success_count,
  latest_ts,
  exc,              \* the exception being handled, None when there is none
  cycle,            \* number of cycles started
  ckptAtStart,      \* state file, run log and collection when the cycle began
  logAtStart,
  collAtStart,
  fetched,          \* the batch as the source returned it
  attempts,         \* outcome of each insert_one of the cycle, in order
  raisedAt          \* the step of the cycle that raised first, "none" when none did

vars ==
  << pc, APIFY_TOKEN, dbReachable, config, source_metadata, start_urls,
     stateFile, collection, runLog, snapshotFile, error_log, last_ts,
     actor_input, items, idx, success_count, latest_ts, exc, cycle,
     ckptAtStart, logAtStart, collAtStart, fetched, attempts, raisedAt >>

env == << APIFY_TOKEN, dbReachable, config >>
globals == << source_metadata, start_urls >>
stores == << stateFile, collection, runLog, snapshotFile, error_log >>
locals == << last_ts, actor_input, items, idx, success_count, latest_ts >>
marks == << cycle, ckptAtStart, logAtStart, collAtStart >>

Init ==
  /\ pc = "startup"
  /\ APIFY_TOKEN \in {"", "token"}
  /\ dbReachable \in BOOLEAN
  /\ config \in Configs
  /\ source_metadata = EmptyDict
  /\ start_urls = <<>>
  /\ stateFile = NoFile
  /\ collection = {}
  /\ runLog = <<>>
  /\ snapshotFile = "missing"
  /\ error_log = 0
  /\ last_ts = ""
  /\ actor_input = EmptyDict
  /\ items = <<>>
  /\ idx = 1
  /\ success_count = 0
  /\ latest_ts = None
  /\ exc = None
  /\ cycle = 0
  /\ ckptAtStart = stateFile
  /\ logAtStart = <<>>
  /\ collAtStart = {}
  /\ fetched = <<>>
  /\ attempts = <<>>
  /\ raisedAt = "none"

\* A start-up that does not test the database connection.
StartupWithoutConnectionTest ==
  /\ pc = "startup"
  /\ IF APIFY_TOKEN = ""
     THEN /\ pc' = "aborted"
          /\ exc' = "ValueError"
          /\ UNCHANGED globals
     ELSE /\ pc' = "load"
          /\ source_metadata' = extract_source_metadata(config).metadata
          /\ start_urls' = extract_source_metadata(config).start_urls
          /\ UNCHANGED exc
  /\ UNCHANGED << env, stores, locals, marks, fetched, attempts, raisedAt >>

\* Lines 43-61 and 218-230: token check, connection test, configuration.
Startup ==
  /\ pc = "startup"
  /\ IF APIFY_TOKEN = ""
     THEN /\ pc' = "aborted"
          /\ exc' = "ValueError"
          /\ UNCHANGED globals
     ELSE IF ~dbReachable
     THEN /\ pc' = "aborted"
          /\ exc' = "ServerSelectionTimeoutError"
          /\ UNCHANGED globals
     ELSE /\ pc' = "load"
          /\ source_metadata' = extract_source_metadata(config).metadata
          /\ start_urls' = extract_source_metadata(config).start_urls
          /\ UNCHANGED exc
  /\ UNCHANGED << env, stores, locals, marks, fetched, attempts, raisedAt >>

\* Lines 233-244: read the checkpoint and build the request.  Both happen
\* before the try statement, so an exception here ends the process.
LoadState ==
  /\ pc = "load"
  /\ cycle < MaxCycles
  /\ cycle' = cycle + 1
  /\ ckptAtStart' = stateFile
  /\ logAtStart' = runLog
  /\ collAtStart' = collection
  /\ LET loaded == load_state(stateFile)
         ts == Get(loaded.state, "lastTimestamp", "")
         built == BuildActorInput(config.inputTemplate, ts)
     IN IF loaded.raised
        THEN /\ pc' = "terminated"
             /\ exc' = loaded.error
             /\ raisedAt' = "load_state"
             /\ UNCHANGED << last_ts, actor_input >>
        ELSE IF built.raised
        THEN /\ pc' = "terminated"
             /\ exc' = built.error
             /\ raisedAt' = "actor_input"
             /\ last_ts' = ts
             /\ UNCHANGED actor_input
        ELSE /\ pc' = "fetch"
             /\ last_ts' = ts
             /\ actor_input' = built.input
             /\ UNCHANGED << exc, raisedAt >>
  /\ UNCHANGED << env, globals, stores, items, idx, success_count, latest_ts,
                  fetched, attempts >>

\* Lines 246-255 with run_actor_and_get_items (84-126): the request, the
\* normalised items, and the branch on `if items`.  len(items) at line 249
\* raises TypeError when the items are None.
Fetch ==
  /\ pc = "fetch"
  /\ \/ \E e \in FetchErrors :
          /\ exc' = e
          /\ raisedAt' = "fetch"
          /\ pc' = "except"
          /\ UNCHANGED << error_log, items, idx, success_count, latest_ts,
                          fetched, attempts >>
     \/ /\ error_log' = error_log + 1
        /\ exc' = "HTTPError"
        /\ raisedAt' = "fetch"
        /\ pc' = "except"
        /\ UNCHANGED << items, idx, success_count, latest_ts, fetched, attempts >>
     \/ \E body \in Bodies :
          LET got == ResponseItems(body)
          IN IF got.isNone
             THEN /\ exc' = "TypeError"
                  /\ raisedAt' = "items"
                  /\ pc' = "except"
                  /\ UNCHANGED << error_log, items, idx, success_count,
                                  latest_ts, fetched, attempts >>
             ELSE /\ items' = got.list
                  /\ fetched' = got.list
                  /\ latest_ts' = None
                  /\ success_count' = 0
                  /\ idx' = 1
                  /\ attempts' = <<>>
                  /\ pc' = IF got.list # <<>> THEN "persist" ELSE "snapshot"
                  /\ UNCHANGED << error_log, exc, raisedAt >>
  /\ UNCHANGED << env, globals, stateFile, collection, runLog, snapshotFile,
                  last_ts, actor_input, marks >>

\* A loop that is left at the first insert that fails.
InsertItemStoppingAtFailure ==
  /\ pc = "persist"
  /\ LET doc == Stamp(items[idx], source_metadata)
     IN \E fault \in BOOLEAN :
          LET inserted == ~fault /\ ~DuplicateKey(collection, doc)
          IN /\ items' = [items EXCEPT ![idx] = doc]
             /\ collection' = IF inserted THEN collection \cup {doc} ELSE collection
             /\ success_count' = NextCount(success_count, inserted)
             /\ attempts' = Append(attempts, inserted)
             /\ pc' = IF idx = Len(items) \/ ~inserted THEN "checkpoint" ELSE "persist"
  /\ idx' = idx + 1
  /\ UNCHANGED << env, globals, stateFile, runLog, snapshotFile, error_log,
                  last_ts, actor_input, latest_ts, exc, marks, fetched, raisedAt >>

\* Lines 156-174: one turn of save_items_to_db's loop.  The item is stamped
\* in place, insert_one either stores it or raises, and the except clause
\* swallows the exception.
InsertItem ==
  /\ pc = "persist"
  /\ LET doc == Stamp(items[idx], source_metadata)
     IN \E fault \in BOOLEAN :
          LET inserted == ~fault /\ ~DuplicateKey(collection, doc)
          IN /\ items' = [items EXCEPT ![idx] = doc]
             /\ collection' = IF inserted THEN collection \cup {doc} ELSE collection
             /\ success_count' = NextCount(success_count, inserted)
             /\ attempts' = Append(attempts, inserted)
  /\ idx' = idx + 1
  /\ pc' = IF idx = Len(items) THEN "checkpoint" ELSE "persist"
  /\ UNCHANGED << env, globals, stateFile, runLog, snapshotFile, error_log,
                  last_ts, actor_input, latest_ts, exc, marks, fetched, raisedAt >>

\* Lines 265-269 with save_state (78-81).  open(path, "w") may fail and leave
\* the file as it was, or the write may fail after the file was truncated.
Checkpoint ==
  /\ pc = "checkpoint"
  /\ latest_ts' = CheckpointTs(items)
  /\ IF Truthy(CheckpointTs(items))
     THEN \/ /\ stateFile' = FileWith(CheckpointTs(items))
             /\ pc' = "snapshot"
             /\ UNCHANGED << exc, raisedAt >>
          \/ /\ stateFile' \in {stateFile, Truncated}
             /\ exc' = "OSError: state file"
             /\ raisedAt' = "save_state"
             /\ pc' = "except"
     ELSE /\ pc' = "snapshot"
          /\ UNCHANGED << stateFile, exc, raisedAt >>
  /\ UNCHANGED << env, globals, collection, runLog, snapshotFile, error_log,
                  last_ts, actor_input, items, idx, success_count, marks,
                  fetched, attempts >>

\* Lines 277-289: the response snapshot.
Snapshot ==
  /\ pc = "snapshot"
  /\ \/ /\ snapshotFile' = "complete"
        /\ pc' = "log"
        /\ UNCHANGED << exc, raisedAt >>
     \/ /\ snapshotFile' \in {snapshotFile, "truncated"}
        /\ exc' = "OSError: snapshot"
        /\ raisedAt' = "snapshot"
        /\ pc' = "except"
  /\ UNCHANGED << env, globals, stateFile, collection, runLog, error_log,
                  locals, marks, fetched, attempts >>

\* A SUCCEEDED record that reports the number of inserted documents.
LogSuccessCountingInserted ==
  /\ pc = "log"
  /\ \/ /\ runLog' = Append(runLog, [SuccessRecord(items, latest_ts)
                                        EXCEPT !.itemCount = success_count])
        /\ pc' = "sleep"
        /\ UNCHANGED << exc, raisedAt >>
     \/ /\ exc' = "OSError: log"
        /\ raisedAt' = "log_run"
        /\ pc' = "except"
        /\ UNCHANGED runLog
  /\ UNCHANGED << env, globals, stateFile, collection, snapshotFile, error_log,
                  locals, marks, fetched, attempts >>

\* Lines 291-299 with log_run (180-183): the SUCCEEDED record.
LogSuccess ==
  /\ pc = "log"
  /\ \/ /\ runLog' = Append(runLog, SuccessRecord(items, latest_ts))
        /\ pc' = "sleep"
        /\ UNCHANGED << exc, raisedAt >>
     \/ /\ exc' = "OSError: log"
        /\ raisedAt' = "log_run"
        /\ pc' = "except"
        /\ UNCHANGED runLog
  /\ UNCHANGED << env, globals, stateFile, collection, snapshotFile, error_log,
                  locals, marks, fetched, attempts >>

\* Lines 301-311: the except clause.  An exception of this log_run is not
\* caught by anything and ends the process; exc keeps the exception that was
\* being handled.
LogError ==
  /\ pc = "except"
  /\ \/ /\ runLog' = Append(runLog, ErrorRecord(exc))
        /\ pc' = "sleep"
        /\ UNCHANGED exc
     \/ /\ pc' = "terminated"
        /\ UNCHANGED << runLog, exc >>
  /\ UNCHANGED << env, globals, stateFile, collection, snapshotFile, error_log,
                  locals, marks, fetched, attempts, raisedAt >>

\* Lines 313-314, back to line 232.  The locals of the finished cycle are all
\* assigned again before the next cycle reads them; they are cleared here.
Sleep ==
  /\ pc = "sleep"
  /\ pc' = "load"
  /\ last_ts' = ""
  /\ actor_input' = EmptyDict
  /\ items' = <<>>
  /\ idx' = 1
  /\ success_count' = 0
  /\ latest_ts' = None
  /\ exc' = None
  /\ fetched' = <<>>
  /\ attempts' = <<>>
  /\ raisedAt' = "none"
  /\ UNCHANGED << env, globals, stores, marks >>

Next ==
  \/ Startup
  \/ LoadState
  \/ Fetch
  \/ InsertItem
  \/ Checkpoint
  \/ Snapshot
  \/ LogSuccess
  \/ LogError
  \/ Sleep

Spec == Init /\ [][Next]_vars

\* ================================================================== claims
\* The timestamp field of the i-th item of the batch as fetched.
TsOf(i) == Get(fetched[i], "timestamp", None)

\* The cycle has ended: the process is about to sleep, or it is dead.
CycleOver == pc \in {"sleep", "terminated"}

\* The fetch of the current cycle raised.
FetchRaised == raisedAt = "fetch" /\ pc \in {"except", "sleep", "terminated"}

\* The fetch of the current cycle returned and yielded no item.
FetchedNothing ==
  /\ pc \in {"snapshot", "log", "except", "sleep", "terminated"}
  /\ raisedAt \in {"none", "snapshot", "log_run"}
  /\ fetched = <<>>

\* C1: in every cycle whose fetch raises, the checkpoint file is what it was
\* when the cycle began, and once the cycle is over the run log has gained
\* one record with status ERROR, itemCount 0 and the exception text as error.
C1_FetchErrorRecorded ==
  FetchRaised =>
    /\ stateFile = ckptAtStart
    /\ CycleOver =>
         runLog = Append(logAtStart,
                         [runId |-> None, status |-> "ERROR", itemCount |-> 0,
                          latestTimestamp |-> None, error |-> exc])

\* What does hold when the fetch raises: the checkpoint file is never touched,
\* a cycle that reaches its sleep has appended exactly the ERROR record, and
\* a cycle that ends the process has appended nothing.
FetchErrorRecordedWhenLogged ==
  FetchRaised =>
    /\ stateFile = ckptAtStart
    /\ pc = "sleep" =>
         runLog = Append(logAtStart,
                         [runId |-> None, status |-> "ERROR", itemCount |-> 0,
                          latestTimestamp |-> None, error |-> exc])
    /\ pc = "terminated" => runLog = logAtStart

\* C2: the checkpoint file differs from its value at the start of the cycle
\* only if some item of the batch has a usable timestamp and was inserted in
\* this cycle; a cycle whose inserts all failed leaves it unchanged.
C2_CheckpointNeedsPersistedItem ==
  (pc \in {"snapshot", "log", "except", "sleep"} /\ stateFile # ckptAtStart) =>
    \E i \in 1..Len(attempts) : attempts[i] /\ Truthy(TsOf(i))

\* C3: a cycle whose Run Record has status ERROR ends with the checkpoint
\* file it began with, whichever step raised.
C3_ErrorCycleKeepsCheckpoint ==
  (pc = "sleep" /\ runLog[Len(runLog)].status = "ERROR") => stateFile = ckptAtStart

\* C4: after start-up no error ends the loop; in particular the process does
\* not terminate when the state file cannot be parsed or when the placeholder
\* substitution yields invalid JSON.
C4_LoadFailureKeepsLooping ==
  ~(pc = "terminated" /\ raisedAt \in {"load_state", "actor_input"})

\* C5: every cycle appends exactly one Run Record, never none and never two,
\* and leaves the records that were already in the log as they were.
C5_OneRecordPerCycle ==
  CycleOver =>
    /\ Len(runLog) = Len(logAtStart) + 1
    /\ SubSeq(runLog, 1, Len(logAtStart)) = logAtStart

\* What does hold of the run log: a cycle that reaches its sleep has appended
\* exactly one record, a cycle that ends the process none, and every step
\* leaves the log as it was or appends one record to it.
OneRecordPerCompletedCycle ==
  /\ pc = "sleep" => Len(runLog) = Len(logAtStart) + 1
  /\ pc = "terminated" => runLog = logAtStart
  /\ SubSeq(runLog, 1, Len(logAtStart)) = logAtStart

RunLogAppendOnly ==
  [][runLog' = runLog \/ \E r \in {SuccessRecord(items, latest_ts), ErrorRecord(exc)} :
                            runLog' = Append(runLog, r)]_vars

\* C6 as stated: a cycle whose fetch returns zero items ends with the
\* checkpoint file unchanged, no document inserted and a Run Record with
\* status SUCCEEDED and itemCount 0 appended.
C6_NoItemsAlwaysSucceeded ==
  (FetchedNothing /\ pc = "sleep") =>
    /\ stateFile = ckptAtStart
    /\ collection = collAtStart
    /\ Len(runLog) = Len(logAtStart) + 1
    /\ runLog[Len(runLog)].status = "SUCCEEDED"
    /\ runLog[Len(runLog)].itemCount = 0

\* C6 amended: a cycle whose fetch returns zero items never changes the
\* checkpoint file and inserts no document; when it reaches its sleep it has
\* appended one Run Record with itemCount 0, whose status is SUCCEEDED if
\* neither the snapshot write nor the run-log write raised and ERROR (with
\* the exception text) if one did.
C6_NoItemsCycle ==
  FetchedNothing =>
    /\ stateFile = ckptAtStart
    /\ collection = collAtStart
    /\ pc = "sleep" =>
         runLog = Append(logAtStart,
                         IF raisedAt = "none"
                         THEN [runId |-> "run", status |-> "SUCCEEDED", itemCount |-> 0,
                               latestTimestamp |-> None, error |-> None]
                         ELSE [runId |-> None, status |-> "ERROR", itemCount |-> 0,
                               latestTimestamp |-> None, error |-> exc])

\* A no-items cycle that ran to its sleep without an exception while a
\* checkpoint file existed.
C6_Witness ==
  /\ FetchedNothing
  /\ pc = "sleep"
  /\ raisedAt = "none"
  /\ ckptAtStart # NoFile
  /\ runLog[Len(runLog)].status = "SUCCEEDED"

\* C7: after the checkpointing step of a cycle whose fetch and persistence
\* succeeded, if any item of the batch has a usable timestamp then a new
\* checkpoint has been saved.
C7_AnyTimestampSavesCheckpoint ==
  (pc = "snapshot" /\ \E i \in 1..Len(fetched) : Truthy(TsOf(i))) =>
    /\ Truthy(latest_ts)
    /\ stateFile = FileWith(latest_ts)

\* C8: after a cycle has advanced the checkpoint, the checkpoint is the
\* latest timestamp among the items of the batch, in whatever order the
\* source returned them.
C8_CheckpointIsLatestTimestamp ==
  (pc = "snapshot" /\ Truthy(latest_ts) /\ stateFile = FileWith(latest_ts)) =>
    \A i \in 1..Len(fetched) : TsRank(TsOf(i)) <= TsRank(stateFile.lastTimestamp)

\* C9: save_items_to_db attempts the insert of every item in order; a failed
\* insert neither stops the later attempts nor undoes the earlier inserts,
\* and the count is the number of inserts that succeeded.
C9_IndependentInserts ==
  pc \in {"persist", "checkpoint"} =>
    /\ Len(attempts) = idx - 1
    /\ pc = "checkpoint" => Len(attempts) = Len(fetched)
    /\ success_count = Cardinality({i \in 1..Len(attempts) : attempts[i]})
    /\ collection = collAtStart \cup {items[i] : i \in {j \in 1..Len(attempts) : attempts[j]}}

\* save_items_to_db has finished a batch whose first insert was rejected for
\* a duplicate natural key and whose second insert succeeded.
C9_Witness ==
  /\ pc = "checkpoint"
  /\ Len(attempts) = 2
  /\ ~attempts[1]
  /\ attempts[2]
  /\ \E d \in collAtStart : d.url = fetched[1].url
  /\ success_count = 1

\* C10: every inserted document carries source_type, post_type, source_name
\* and category, each equal to the metadata's value when the metadata has the
\* field and otherwise to the default ("facebook", "post", the item's
\* pageNameSource or "Facebook Page", "Social Media"), whatever the item
\* held in those fields before.
C10_MetadataStamped ==
  \A d \in collection :
    /\ {"source_type", "post_type", "source_name", "category"} \subseteq DOMAIN d
    /\ d.source_type = IF "source_type" \in DOMAIN source_metadata
                       THEN source_metadata.source_type ELSE "facebook"
    /\ d.post_type = IF "post_type" \in DOMAIN source_metadata
                     THEN source_metadata.post_type ELSE "post"
    /\ d.source_name = IF "source_name" \in DOMAIN source_metadata
                       THEN source_metadata.source_name
                       ELSE IF "pageNameSource" \in DOMAIN d
                            THEN d.pageNameSource ELSE FacebookPage
    /\ d.category = IF "category" \in DOMAIN source_metadata
                    THEN source_metadata.category ELSE "Social Media"

\* The item that came with its own four fields is stored, under a metadata
\* that lacks source_name, next to an item that has a pageNameSource.
C10_Witness ==
  /\ "source_name" \notin DOMAIN source_metadata
  /\ \E d \in collection : d.url = "u1" /\ d.timestamp = T2 /\ d.source_name = FacebookPage
  /\ \E d \in collection : "pageNameSource" \in DOMAIN d

\* C11: with a config that has no source_metadata entry and whose first start
\* URL is https://facebook.com/Acme, every document inserted carries the
\* source_name "Acme" derived from the URL.
C11_SourceNameFromUrl ==
  ("source_metadata" \notin DOMAIN config
      /\ config.inputTemplate.startUrls[1].url = UrlAcme) =>
    \A d \in collection : d.source_name = <<"A","c","m","e">>

\* C12: an exception of log_run never ends the process: the process does not
\* terminate in the try block's or the except clause's log_run.
C12_LogFailureNonFatal ==
  ~(pc = "terminated" /\ raisedAt \notin {"load_state", "actor_input"})

\* C13: whatever save_state did in this cycle, also when it failed, the state
\* file holds the checkpoint the cycle began with or the new one, and
\* load_state can read it.
C13_SaveStateAtomic ==
  pc \in {"snapshot", "log", "except", "sleep"} =>
    /\ stateFile = ckptAtStart \/ stateFile = FileWith(latest_ts)
    /\ ~load_state(stateFile).raised

\* C14: while the token is missing or the database connection test has not
\* succeeded, the process is starting up or has aborted: no cycle has begun,
\* nothing was fetched, inserted or written, and no Run Record exists.
C14_NoCycleWithoutStartup ==
  (APIFY_TOKEN = "" \/ ~dbReachable) =>
    /\ pc \in {"startup", "aborted"}
    /\ cycle = 0
    /\ stateFile = NoFile
    /\ collection = {}
    /\ runLog = <<>>
    /\ snapshotFile = "missing"
    /\ error_log = 0

\* The process has aborted at start-up: the token is set, the database does
\* not answer.
C14_Witness ==
  /\ pc = "aborted"
  /\ APIFY_TOKEN # ""
  /\ ~dbReachable
  /\ exc = "ServerSelectionTimeoutError"

\* C15 as stated: a cycle whose fetch returned items and in which at least
\* one insert failed ends with a Run Record of status SUCCEEDED whose
\* itemCount is the number of items fetched.
C15_InsertFailuresStillSucceeded ==
  (pc = "sleep" /\ fetched # <<>> /\ \E i \in 1..Len(attempts) : ~attempts[i]) =>
    /\ runLog[Len(runLog)].status = "SUCCEEDED"
    /\ runLog[Len(runLog)].itemCount = Len(fetched)

\* C15 amended: insert failures do not decide the status.  A cycle whose
\* fetch returned items and that reaches its sleep has appended one Run
\* Record; however many inserts failed, it is SUCCEEDED with itemCount the
\* number of items fetched when no later step (checkpoint write, snapshot
\* write, run-log write) raised, and ERROR with itemCount 0 and the
\* exception text when one did.
C15_InsertFailuresDoNotDecideStatus ==
  (pc = "sleep" /\ fetched # <<>>) =>
    runLog = Append(logAtStart,
                    IF raisedAt = "none"
                    THEN [runId |-> "run", status |-> "SUCCEEDED",
                          itemCount |-> Len(fetched),
                          latestTimestamp |-> latest_ts, error |-> None]
                    ELSE [runId |-> None, status |-> "ERROR", itemCount |-> 0,
                          latestTimestamp |-> None, error |-> exc])

\* A cycle of two items whose inserts both failed has been logged SUCCEEDED
\* with itemCount 2.
C15_Witness ==
  /\ pc = "sleep"
  /\ raisedAt = "none"
  /\ Len(fetched) = 2
  /\ attempts = <<FALSE, FALSE>>
  /\ success_count = 0
  /\ runLog[Len(runLog)].status = "SUCCEEDED"
  /\ runLog[Len(runLog)].itemCount = 2

\* The documents the cycle has inserted so far are in the collection.
InsertedStay ==
  collection = collAtStart \cup {items[i] : i \in {j \in 1..Len(attempts) : attempts[j]}}

\* What does hold when save_state raises: a cycle that reaches its sleep has
\* appended the ERROR record with the exception text, itemCount 0 and no
\* latestTimestamp, and the documents inserted before stay in the collection.
SaveStateFailureLogged ==
  (raisedAt = "save_state" /\ pc \in {"except", "sleep", "terminated"}) =>
    /\ InsertedStay
    /\ pc = "sleep" =>
         runLog = Append(logAtStart,
                         [runId |-> None, status |-> "ERROR", itemCount |-> 0,
                          latestTimestamp |-> None, error |-> "OSError: state file"])

\* C16: a cycle whose save_state raised appends the ERROR record with the
\* exception text (itemCount 0, latestTimestamp null), keeps the inserted
\* documents, and is followed by a next cycle: the process does not end when
\* that next cycle reads the checkpoint.
C16_SaveStateFailureThenNextCycle ==
  /\ SaveStateFailureLogged
  /\ ~(/\ pc = "terminated"
       /\ raisedAt = "load_state"
       /\ runLog # <<>>
       /\ runLog[Len(runLog)].error = "OSError: state file")

\* C17: the steps of a cycle happen in the order checkpoint read, fetch,
\* persistence, checkpoint write, run-log append, sleep.  Documents are
\* inserted only before the cycle's checkpoint write and Run Record; the
\* checkpoint is written only after every item of the batch had its insert
\* attempted and before the Run Record; the Run Record is appended only
\* after the checkpoint step and is followed by the sleep; during the sleep
\* nothing is written; and a cycle begins, with its checkpoint read, only
\* from start-up or from the sleep of the cycle before.
C17_StepOrder ==
  [][/\ collection' # collection =>
          /\ pc = "persist"
          /\ stateFile = ckptAtStart
          /\ runLog = logAtStart
     /\ stateFile' # stateFile =>
          /\ pc = "checkpoint"
          /\ fetched # <<>>
          /\ Len(attempts) = Len(fetched)
          /\ runLog = logAtStart
     /\ runLog' # runLog =>
          /\ pc \in {"log", "except"}
          /\ pc' = "sleep"
          /\ (pc = "log" /\ fetched # <<>>) =>
                /\ Len(attempts) = Len(fetched)
                /\ latest_ts = CheckpointTs(items)
     /\ pc = "sleep" => (pc' = "load" /\ UNCHANGED stores)
     /\ cycle' # cycle => pc = "load"
     /\ pc' = "load" => pc \in {"startup", "sleep"}]_vars

\* The second cycle has inserted a document after a failed insert, written
\* the checkpoint, appended its Run Record and reached its sleep.
C17_Witness ==
  /\ pc = "sleep"
  /\ cycle = 2
  /\ attempts = <<FALSE, TRUE>>
  /\ collection # collAtStart
  /\ stateFile # ckptAtStart
  /\ Len(runLog) = 2

\* C18: a 200 response whose body is neither a list nor an object with a
\* data list (here: an object whose data is null) counts as an empty
\* sequence of items, and its cycle ends with a Run Record of status
\* SUCCEEDED and itemCount 0, not ERROR.
C18_OtherBodiesAreNoItems ==
  (raisedAt = "items" /\ pc = "sleep") =>
    /\ runLog[Len(runLog)].status = "SUCCEEDED"
    /\ runLog[Len(runLog)].itemCount = 0

\* The checkpoint value a cycle starts from: the state file's lastTimestamp,
\* the empty string when there is no state file.
CheckpointAtStart == IF ckptAtStart.exists THEN ckptAtStart.lastTimestamp ELSE ""

\* The configured template with every placeholder replaced by that value.
ExpectedRequest ==
  LET template == config.inputTemplate
  IN IF "onlyPostsNewerThan" \in DOMAIN template
     THEN [template EXCEPT !.onlyPostsNewerThan =
             [i \in 1..Len(@) |-> IF @[i] = Placeholder THEN CheckpointAtStart ELSE @[i]]]
     ELSE template

\* What does hold of the request: whenever a cycle has built one, it is the
\* template with each placeholder replaced by the checkpoint the cycle began
\* with.
RequestCarriesCheckpoint ==
  (pc \in {"fetch", "persist", "checkpoint", "snapshot", "log", "except", "sleep"}
     \/ (pc = "terminated" /\ raisedAt \notin {"load_state", "actor_input"})) =>
    actor_input = ExpectedRequest

\* The configured template is never modified.
TemplateNeverModified == [][config' = config]_vars

\* C19: every cycle that has read its checkpoint sends a request that is the
\* template with each placeholder replaced by that checkpoint value, so the
\* checkpoint written by one cycle is the value substituted in the next.
C19_CheckpointSubstituted ==
  (pc \in {"fetch", "persist", "checkpoint", "snapshot", "log", "except",
           "sleep", "terminated"} /\ raisedAt # "load_state") =>
    /\ raisedAt # "actor_input"
    /\ actor_input = ExpectedRequest

====
